---- MODULE Spec2Model ----
(***************************************************************************)
(* A model of the mine-rs rules engine: Cell and Field (src/field.rs,      *)
(* src/field/cell.rs), the Stopwatch (src/stopwatch.rs) and the Minesweeper *)
(* session with its action state machine (src/lib.rs), and of the game view *)
(* of the terminal application around it (src/bin/main/app.rs,              *)
(* src/bin/main/game_ui.rs, src/main.rs).                                   *)
(*                                                                         *)
(* Positions are zero-based (row, column) pairs as in the source; the grid *)
(* is a sequence of rows, so the cell at (r, c) is grid[r + 1][c + 1].      *)
(***************************************************************************)
EXTENDS Integers, Sequences, FiniteSets, TLC

VARIABLES
    grid,          \* Field.grid: Vec<Vec<Cell>>
    mines_amount,  \* Field.mines_amount
    status,        \* Minesweeper.status
    stopwatch,     \* Minesweeper.stopwatch: [start_time, elapsed]
    now,           \* the monotonic clock read by Instant::now()
    result,        \* what the most recent API call returned
    crash,         \* "none" while the process lives, else why it died
    call,          \* the most recent Field-level call (Field specification)
    app            \* the terminal application around the session (App)

vars == <<grid, mines_amount, status, stopwatch, now, result, crash, call,
          app>>

----------------------------------------------------------------------------
(* Bounds of the model.                                                    *)

\* The clock advances up to MaxTime ticks.
MaxTime == 1

\* A stopwatch on its own is watched for MaxClock ticks.
MaxClock == 7

\* Field::new is called with up to MaxNewSide rows and columns.
MaxNewSide == 3

----------------------------------------------------------------------------
(* Option<T> and 8-bit arithmetic.                                         *)

None == <<>>
Some(x) == <<x>>

\* The number of values of a u8.
U8Range == 256

AsU8(x) == x % U8Range

\* A Vec<T> built from its elements: the sequence with the values of f.
Vec(f) == SubSeq(f, 1, Len(f))

----------------------------------------------------------------------------
(* Cell (src/field/cell.rs).                                               *)

Empty(n) == <<"Empty", n>>
Mine == <<"Mine">>

Closed(flagged) == <<"Closed", flagged>>
Open == <<"Open">>

Cell_new(position) ==
    [position |-> position, variant |-> Empty(0), state |-> Closed(FALSE)]

\* A variant of is_mined that never sees a mine.
is_mined_never(cell) == FALSE

is_mined(cell) == cell.variant = Mine

\* A variant of mine that leaves the cell as it is.
mine_not(cell) == cell

mine(cell) == [cell EXCEPT !.variant = Mine]

get_mines_around_amount(cell) ==
    IF cell.variant[1] = "Empty" THEN Some(cell.variant[2]) ELSE None

increment_mines_around_amount(cell) ==
    IF cell.variant[1] = "Empty"
    THEN [cell EXCEPT !.variant = Empty(cell.variant[2] + 1)]
    ELSE cell

is_open(cell) == cell.state = Open

\* A variant of open that leaves the cell as it is.
open_not(cell) == cell

open(cell) == [cell EXCEPT !.state = Open]

\* A variant of is_flagged that never sees a flag.
is_flagged_never(cell) == FALSE

is_flagged(cell) ==
    IF cell.state[1] = "Closed" THEN cell.state[2] ELSE FALSE

\* A variant of toggle_flag that does not look at the state of the cell.
toggle_flag_any_state(cell) ==
    [cell EXCEPT !.state = Closed(~(cell.state = Closed(TRUE)))]

toggle_flag(cell) ==
    IF cell.state[1] = "Closed"
    THEN [cell EXCEPT !.state = Closed(~cell.state[2])]
    ELSE cell

\* A variant of get_adjacent_cells_positions without the diagonal neighbours.
get_adjacent_cells_positions_orthogonal(cell) ==
    LET row_index == cell.position[1]
        column_index == cell.position[2]
        around == << <<row_index,     column_index - 1>>,
                     <<row_index - 1, column_index>>,
                     <<row_index + 1, column_index>>,
                     <<row_index,     column_index + 1>> >>
    IN  SelectSeq(around, LAMBDA p : p[1] >= 0 /\ p[2] >= 0)

\* The up-to-8 neighbours on an unbounded field, in the source's order;
\* only negative coordinates are dropped here.
get_adjacent_cells_positions(cell) ==
    LET row_index == cell.position[1]
        column_index == cell.position[2]
        around == << <<row_index - 1, column_index - 1>>,
                     <<row_index,     column_index - 1>>,
                     <<row_index + 1, column_index - 1>>,
                     <<row_index - 1, column_index>>,
                     <<row_index + 1, column_index>>,
                     <<row_index - 1, column_index + 1>>,
                     <<row_index,     column_index + 1>>,
                     <<row_index + 1, column_index + 1>> >>
        kept == SelectSeq(around, LAMBDA p : p[1] >= 0 /\ p[2] >= 0)
    IN  Vec([i \in 1..Len(kept) |-> <<AsU8(kept[i][1]), AsU8(kept[i][2])>>])

----------------------------------------------------------------------------
(* Field (src/field.rs).                                                   *)

\* Result<T, E>.
Ok(v) == <<"Ok", v>>
Err(e) == <<"Err", e>>
IsOk(r) == r[1] = "Ok"

\* A variant of Field_new that accepts as many mines as there are cells.
Field_new_mines_up_to_cells(rows_amount, columns_amount, mines) ==
    LET cells_amount == rows_amount * columns_amount
    IN  IF cells_amount < 2
        THEN Err(<<"NotEnoughCells">>)
        ELSE IF mines < 1 \/ mines > cells_amount
        THEN Err(<<"InvalidMinesAmount", cells_amount - 1>>)
        ELSE Ok([grid |-> Vec([r \in 1..rows_amount |->
                              Vec([c \in 1..columns_amount |->
                                  Cell_new(<<r - 1, c - 1>>)])]),
                 mines_amount |-> mines])

Field_new(rows_amount, columns_amount, mines) ==
    LET cells_amount == rows_amount * columns_amount
    IN  IF cells_amount < 2
        THEN Err(<<"NotEnoughCells">>)
        ELSE IF mines < 1 \/ mines > cells_amount - 1
        THEN Err(<<"InvalidMinesAmount", cells_amount - 1>>)
        ELSE Ok([grid |-> Vec([r \in 1..rows_amount |->
                              Vec([c \in 1..columns_amount |->
                                  Cell_new(<<r - 1, c - 1>>)])]),
                 mines_amount |-> mines])

get_size(g) ==
    LET rows_amount == AsU8(Len(g))
        columns_amount == AsU8(IF Len(g) > 0 THEN Len(g[1]) ELSE 0)
    IN  <<rows_amount, columns_amount, rows_amount * columns_amount>>

\* grid.get(row).and_then(|r| r.get(column)) is Some exactly for these.
HasCell(g, pos) ==
    /\ pos[1] < Len(g)
    /\ pos[2] < Len(g[pos[1] + 1])

CellAt(g, pos) == g[pos[1] + 1][pos[2] + 1]

\* A variant of get_cell that never finds the cell.
get_cell_none(g, pos) == None

get_cell(g, pos) == IF HasCell(g, pos) THEN Some(CellAt(g, pos)) ELSE None

SetCell(g, pos, cell) == [g EXCEPT ![pos[1] + 1][pos[2] + 1] = cell]

\* Every position of the grid, as a set and in row-major order.
Positions(g) ==
    {<<r, c>> : r \in 0..(Len(g) - 1), c \in 0..(get_size(g)[2] - 1)}

Flattened(g) ==
    LET columns_amount == get_size(g)[2]
    IN  Vec([i \in 1..(Len(g) * columns_amount) |->
            <<(i - 1) \div columns_amount, (i - 1) % columns_amount>>])

\* A variant of KSubsets that takes every cell left in the list.
KSubsets_all(S, m) == {S}

\* The m-element subsets of S: what shuffle-and-take(m) can select.
RECURSIVE KSubsets(_, _)
KSubsets(S, m) ==
    IF m = 0 THEN {{}}
    ELSE IF m > Cardinality(S) THEN {}
    ELSE IF m = Cardinality(S) THEN {S}
    ELSE LET x == CHOOSE y \in S : TRUE
         IN  KSubsets(S \ {x}, m) \cup
             {T \cup {x} : T \in KSubsets(S \ {x}, m - 1)}

RemoveAt(seq, index) ==
    SubSeq(seq, 1, index) \o SubSeq(seq, index + 2, Len(seq))

RangeOf(seq) == {seq[i] : i \in 1..Len(seq)}

\* The flattened index of the excepted cell, row_index * columns_amount +
\* column_index, in u8 arithmetic: `overflow` tells whether the product or
\* the sum leaves the u8 range, `index` is the wrapped value.
ExceptedIndex(row_index, column_index, columns_amount) ==
    LET product == row_index * columns_amount
        sum == AsU8(product) + column_index
    IN  [overflow |-> product >= U8Range \/ sum >= U8Range,
         index |-> AsU8(sum)]

\* for_each over the adjacent positions of the mined cells: every position
\* that has a cell gets one increment. (The list is folded left to right;
\* it is split in halves, and the grid is looked at first, only to keep the
\* evaluation shallow.)
RECURSIVE IncrementAll(_, _)
IncrementAll(g, positions) ==
    IF g = <<>> \/ positions = <<>> THEN g
    ELSE IF Len(positions) = 1
    THEN LET pos == positions[1]
         IN  IF HasCell(g, pos)
             THEN SetCell(g, pos, increment_mines_around_amount(CellAt(g, pos)))
             ELSE g
    ELSE LET half == Len(positions) \div 2
         IN  IncrementAll(IncrementAll(g, SubSeq(positions, 1, half)),
                          SubSeq(positions, half + 1, Len(positions)))

RECURSIVE IncrementAroundEach(_, _)
IncrementAroundEach(g, mined) ==
    IF g = <<>> \/ mined = <<>> THEN g
    ELSE IF Len(mined) = 1
    THEN IncrementAll(g, get_adjacent_cells_positions(mined[1]))
    ELSE LET half == Len(mined) \div 2
         IN  IncrementAroundEach(IncrementAroundEach(g, SubSeq(mined, 1, half)),
                                 SubSeq(mined, half + 1, Len(mined)))

\* The cells at the chosen positions, mined, in flattened order (the order
\* of the shuffle only decides the order of the increments, which commute).
MineCells(g, flat, chosen) ==
    LET picked == SelectSeq(flat, LAMBDA pos : pos \in chosen)
    IN  Vec([i \in 1..Len(picked) |-> mine(CellAt(g, picked[i]))])

\* The grid with each of `cells` written at its own position.
PutCells(g, cells) ==
    Vec([r \in 1..Len(g) |-> Vec([c \in 1..Len(g[r]) |->
        IF \E i \in 1..Len(cells) : cells[i].position = <<r - 1, c - 1>>
        THEN cells[CHOOSE i \in 1..Len(cells) :
                       cells[i].position = <<r - 1, c - 1>>]
        ELSE g[r][c]])])

\* Mines placed on `chosen`, then the counts around them incremented.
Placed(g, flat, chosen) ==
    LET cells_with_mines == MineCells(g, flat, chosen)
    IN  IncrementAroundEach(PutCells(g, cells_with_mines), cells_with_mines)

\* A variant of ExceptedOutOfField that looks at the row index only.
ExceptedOutOfField_rows_only(pos, rows_amount, columns_amount) ==
    pos[1] > rows_amount - 1

\* (row_index > rows_amount - 1) || (column_index > columns_amount - 1)
ExceptedOutOfField(pos, rows_amount, columns_amount) ==
    pos[1] > rows_amount - 1 \/ pos[2] > columns_amount - 1

\* Every outcome of populate_with_mines(excepted_cell_position): an error,
\* a panic (an arithmetic overflow with overflow checks on, or a removal
\* past the end), or Ok with one of the possible placements.
populate_with_mines(field, excepted_cell_position) ==
    LET g == field.grid
        rows_amount == get_size(g)[1]
        columns_amount == get_size(g)[2]
        flattened_field == Flattened(g)
        excepted == excepted_cell_position # None
        pos == excepted_cell_position[1]
        at == ExceptedIndex(pos[1], pos[2], columns_amount)
        remaining == IF excepted
                     THEN RemoveAt(flattened_field, at.index)
                     ELSE flattened_field
        placements ==
            {[kind |-> "Ok", grid |-> Placed(g, remaining, chosen)] :
                chosen \in KSubsets(RangeOf(remaining), field.mines_amount)}
    IN  IF excepted /\ ExceptedOutOfField(pos, rows_amount, columns_amount)
        THEN {[kind |-> "Err",
               error |-> <<"InvalidExceptedCellPosition", pos>>]}
        ELSE IF \E p \in Positions(g) : is_mined(CellAt(g, p))
        THEN {[kind |-> "Err", error |-> <<"MinesAlreadyExist">>]}
        ELSE IF excepted /\ at.index >= Len(flattened_field)
        THEN {[kind |-> "Panic"]}
        ELSE IF excepted /\ at.overflow
        THEN {[kind |-> "Panic"]} \cup placements
        ELSE placements

\* The outcome of a recursive Field operation: the grid it leaves, and
\* whether the recursion never returns (it re-enters a call that is still
\* active with the same grid, so the stack grows until it overflows).
Returned(g) == [grid |-> g, overflow |-> FALSE]
Overflowed(g) == [grid |-> g, overflow |-> TRUE]

RECURSIVE open_cell_rec(_, _, _)
RECURSIVE open_cells(_, _, _)

\* open_cell(pos) with `active` the (position, grid) pairs of the calls of
\* open_cell that have not returned yet.
open_cell_rec(g, pos, active) ==
    IF <<pos, g>> \in active THEN Overflowed(g)
    ELSE IF ~HasCell(g, pos) THEN Returned(g)
    ELSE LET cell == CellAt(g, pos)
         IN  IF ~is_open(cell) /\ ~is_flagged(cell)
             THEN Returned(SetCell(g, pos, open(cell)))
             ELSE IF get_mines_around_amount(cell) = Some(0)
             THEN open_cells(g, get_adjacent_cells_positions(cell),
                             active \cup {<<pos, g>>})
             ELSE Returned(g)

\* for_each(|position| self.open_cell(position)) over a list of positions.
open_cells(g, positions, active) ==
    IF positions = <<>> THEN Returned(g)
    ELSE LET first == open_cell_rec(g, Head(positions), active)
         IN  IF first.overflow THEN first
             ELSE open_cells(first.grid, Tail(positions), active)

open_cell(g, pos) == open_cell_rec(g, pos, {})

FlaggedAdjacentCellsAmount(g, adjacent_cells_indices) ==
    AsU8(Cardinality({i \in 1..Len(adjacent_cells_indices) :
            /\ HasCell(g, adjacent_cells_indices[i])
            /\ is_flagged(CellAt(g, adjacent_cells_indices[i]))}))

\* A variant of ChordApplies that does not compare the number of flags.
ChordApplies_any_flags(g, target_cell) ==
    /\ is_open(target_cell)
    /\ get_mines_around_amount(target_cell) # None

\* The condition under which open_surrounding_cells opens the neighbours.
ChordApplies(g, target_cell) ==
    /\ is_open(target_cell)
    /\ get_mines_around_amount(target_cell) # None
    /\ FlaggedAdjacentCellsAmount(g, get_adjacent_cells_positions(target_cell))
           = get_mines_around_amount(target_cell)[1]

\* A variant of open_surrounding_cells that does not test the target cell.
open_surrounding_cells_always(g, pos) ==
    IF ~HasCell(g, pos) THEN Returned(g)
    ELSE open_cells(g, get_adjacent_cells_positions(CellAt(g, pos)), {})

open_surrounding_cells(g, pos) ==
    IF ~HasCell(g, pos) THEN Returned(g)
    ELSE LET target_cell == CellAt(g, pos)
         IN  IF ChordApplies(g, target_cell)
             THEN open_cells(g, get_adjacent_cells_positions(target_cell), {})
             ELSE Returned(g)

\* A variant of flag_cell that calls increment_mines_around_amount.
flag_cell_increments(g, pos) ==
    IF HasCell(g, pos)
    THEN SetCell(g, pos, increment_mines_around_amount(CellAt(g, pos)))
    ELSE g

\* A variant of flag_cell that sets the state of the cell to Closed(true).
flag_cell_closes(g, pos) ==
    IF HasCell(g, pos)
    THEN SetCell(g, pos, [CellAt(g, pos) EXCEPT !.state = Closed(TRUE)])
    ELSE g

\* Field::flag_cell; the session calls it as toggle_cell_flag.
flag_cell(g, pos) ==
    IF HasCell(g, pos) THEN SetCell(g, pos, toggle_flag(CellAt(g, pos))) ELSE g

get_flagged_cells_amount(g) ==
    Cardinality({p \in Positions(g) : is_flagged(CellAt(g, p))})

\* A variant of check_open_mines_exist with `all` in place of `any`.
check_open_mines_exist_all(g) ==
    \A p \in Positions(g) : is_open(CellAt(g, p)) /\ is_mined(CellAt(g, p))

check_open_mines_exist(g) ==
    \E p \in Positions(g) : is_open(CellAt(g, p)) /\ is_mined(CellAt(g, p))

\* A variant of check_all_non_mines_open without the filter on mined cells.
check_all_non_mines_open_unfiltered(g) ==
    \A p \in Positions(g) : is_open(CellAt(g, p))

check_all_non_mines_open(g) ==
    \A p \in Positions(g) : ~is_mined(CellAt(g, p)) => is_open(CellAt(g, p))

\* A variant of open_missed_mines that reveals nothing.
open_missed_mines_none(g) == g

open_missed_mines(g) ==
    Vec([r \in 1..Len(g) |-> Vec([c \in 1..Len(g[r]) |->
        IF is_mined(g[r][c]) /\ ~is_flagged(g[r][c])
        THEN open(g[r][c])
        ELSE g[r][c]])])

----------------------------------------------------------------------------
(* Stopwatch (src/stopwatch.rs). A stopwatch is [start_time, elapsed];     *)
(* `t` is the instant at which the method runs.                            *)

Stopwatch_default == [start_time |-> None, elapsed |-> 0]

get_elapsed_time(sw, t) ==
    IF sw.start_time # None
    THEN sw.elapsed + (t - sw.start_time[1])
    ELSE sw.elapsed

\* A variant of start that leaves the stopwatch as it is.
start_not(sw, t) == sw

start(sw, t) == [sw EXCEPT !.start_time = Some(t)]

\* A variant of stop that forgets the interval that was running.
stop_without_flush(sw, t) == [start_time |-> None, elapsed |-> sw.elapsed]

stop(sw, t) == [start_time |-> None, elapsed |-> get_elapsed_time(sw, t)]

----------------------------------------------------------------------------
(* Minesweeper (src/lib.rs). A session is [field, status, stopwatch] with  *)
(* field = [grid, mines_amount].                                           *)

Pre == <<"Pre">>
On == <<"On">>
Pause == <<"Pause">>
End(victory) == <<"End", victory>>

OpenCell(pos) == <<"OpenCell", pos>>
OpenSurroundingCells(pos) == <<"OpenSurroundingCells", pos>>
OpenCellOrSurroundingCells(pos) == <<"OpenCellOrSurroundingCells", pos>>
FlagCell(pos) == <<"FlagCell", pos>>

ActionKinds ==
    {"OpenCell", "OpenSurroundingCells", "OpenCellOrSurroundingCells",
     "FlagCell"}

Minesweeper_new(rows_amount, columns_amount, mines) ==
    LET field == Field_new(rows_amount, columns_amount, mines)
    IN  IF IsOk(field)
        THEN Ok([field |-> field[2], status |-> Pre,
                 stopwatch |-> Stopwatch_default])
        ELSE Err(<<"FieldError", field[2]>>)

\* A variant of is_end that matches End(true) only.
is_end_victory_only(st) == st = End(TRUE)

\* if let MinesweeperStatus::End(_) = self.status
is_end(st) == st[1] = "End"

\* A variant of is_pause that never matches.
is_pause_never(st) == FALSE

\* if let MinesweeperStatus::Pause = self.status
is_pause(st) == st = Pause

\* A variant of check_victory_or_loss that looks at the victory first.
check_victory_or_loss_victory_first(s) ==
    LET loss == check_open_mines_exist(s.field.grid)
        victory == check_all_non_mines_open(s.field.grid)
    IN  IF victory THEN Some(TRUE)
        ELSE IF loss THEN Some(FALSE)
        ELSE None

check_victory_or_loss(s) ==
    LET loss == check_open_mines_exist(s.field.grid)
        victory == check_all_non_mines_open(s.field.grid)
    IN  IF loss THEN Some(FALSE)
        ELSE IF victory THEN Some(TRUE)
        ELSE None

update_status(s, t) ==
    LET outcome == check_victory_or_loss(s)
    IN  IF outcome # None
        THEN [field |-> [s.field EXCEPT !.grid =
                            IF ~outcome[1] THEN open_missed_mines(@) ELSE @],
              status |-> End(outcome[1]),
              stopwatch |-> stop(s.stopwatch, t)]
        ELSE s

\* What a call leaves behind: the session, what it returns, and whether the
\* process died in it (then nothing else of the outcome is observable).
Returns(s, value) == [game |-> s, result |-> value, crash |-> "none"]
Dies(s, why) == [game |-> s, result |-> <<"None">>, crash |-> why]

WithGrid(s, opened) ==
    IF opened.overflow
    THEN Dies(s, "stack overflow")
    ELSE Returns([s EXCEPT !.field.grid = opened.grid], Ok(s.status))

\* A variant of PerformOpenCell that populates the field whatever the status.
PerformOpenCell_always_populates(s, cell_position, t) ==
    {IF placed.kind = "Err"
         THEN Returns(s, Err(<<"FieldError", placed.error>>))
     ELSE IF placed.kind = "Panic"
         THEN Dies(s, "panic")
     ELSE LET started == [field |-> [s.field EXCEPT !.grid = placed.grid],
                          status |-> On,
                          stopwatch |-> start(s.stopwatch, t)]
          IN  WithGrid(started, open_cell(placed.grid, cell_position)) :
     placed \in populate_with_mines(s.field, Some(cell_position))}

\* The OpenCell arm of the match.
PerformOpenCell(s, cell_position, t) ==
    IF s.status = On
    THEN {WithGrid(s, open_cell(s.field.grid, cell_position))}
    ELSE {IF placed.kind = "Err"
              THEN Returns(s, Err(<<"FieldError", placed.error>>))
          ELSE IF placed.kind = "Panic"
              THEN Dies(s, "panic")
          ELSE LET started == [field |-> [s.field EXCEPT !.grid = placed.grid],
                               status |-> On,
                               stopwatch |-> start(s.stopwatch, t)]
               IN  WithGrid(started, open_cell(placed.grid, cell_position)) :
          placed \in populate_with_mines(s.field, Some(cell_position))}

RECURSIVE take_action(_, _, _)

\* The body of the match: the session after the requested action, before
\* the status is updated; an Err result is one that `?` propagates.
Perform(s, action_type, t) ==
    LET cell_position == action_type[2]
    IN  CASE action_type[1] = "OpenCell" ->
                PerformOpenCell(s, cell_position, t)
          [] action_type[1] = "OpenSurroundingCells" ->
                {WithGrid(s, open_surrounding_cells(s.field.grid, cell_position))}
          [] action_type[1] = "OpenCellOrSurroundingCells" ->
                LET target_cell == get_cell(s.field.grid, cell_position)
                IN  IF target_cell # None
                    THEN IF is_open(target_cell[1])
                         THEN take_action(s, OpenSurroundingCells(cell_position), t)
                         ELSE take_action(s, OpenCell(cell_position), t)
                    ELSE {Returns(s, Ok(s.status))}
          [] action_type[1] = "FlagCell" ->
                {Returns([s EXCEPT !.field.grid = flag_cell(@, cell_position)],
                         Ok(s.status))}

\* Every outcome of take_action(action_type) at instant t.
take_action(s, action_type, t) ==
    IF is_end(s.status)
    THEN {Returns(s, Err(<<"GameAlreadyEnded">>))}
    ELSE IF is_pause(s.status)
    THEN {Returns(s, Ok(Pause))}
    ELSE {IF done.crash # "none" \/ ~IsOk(done.result)
              THEN done
              ELSE LET updated == update_status(done.game, t)
                   IN  Returns(updated, Ok(updated.status)) :
          done \in Perform(s, action_type, t)}

\* A variant of toggle_pause whose second branch takes any status but On.
toggle_pause_resumes_any(s, t) ==
    IF s.status = On
    THEN [s EXCEPT !.status = Pause, !.stopwatch = stop(@, t)]
    ELSE [s EXCEPT !.status = On, !.stopwatch = start(@, t)]

\* A variant of toggle_pause without the second branch.
toggle_pause_one_way(s, t) ==
    IF s.status = On
    THEN [s EXCEPT !.status = Pause, !.stopwatch = stop(@, t)]
    ELSE s

toggle_pause(s, t) ==
    IF s.status = On
    THEN [s EXCEPT !.status = Pause, !.stopwatch = stop(@, t)]
    ELSE IF s.status = Pause
    THEN [s EXCEPT !.status = On, !.stopwatch = start(@, t)]
    ELSE s

get_time(s, t) == get_elapsed_time(s.stopwatch, t)

----------------------------------------------------------------------------
(* The session specification: a game is created with one of the            *)
(* configurations, then the caller issues actions and pause toggles while   *)
(* the clock advances.                                                     *)

AllInputs(rows_amount, columns_amount) ==
    {<<r, c>> : r \in 0..(rows_amount - 1), c \in 0..(columns_amount - 1)}
        \cup {<<rows_amount, 0>>, <<0, columns_amount>>}

\* The fields played, each with the positions the caller passes: every cell
\* and two positions outside on the small fields (the two fields of the
\* smallest size among them, and one with the largest amount of mines its
\* size allows), a few cells on the field of more than 256 cells.
Configs ==
    {[rows |-> 1, columns |-> 2, mines |-> 1, inputs |-> AllInputs(1, 2)],
     [rows |-> 2, columns |-> 1, mines |-> 1, inputs |-> AllInputs(2, 1)],
     [rows |-> 1, columns |-> 4, mines |-> 1, inputs |-> AllInputs(1, 4)],
     [rows |-> 2, columns |-> 2, mines |-> 3, inputs |-> AllInputs(2, 2)],
     [rows |-> 2, columns |-> 3, mines |-> 1, inputs |-> AllInputs(2, 3)],
     [rows |-> 2, columns |-> 129, mines |-> 257,
      inputs |-> {<<0, 0>>, <<0, 1>>, <<1, 128>>}]}

Game == [field |-> [grid |-> grid, mines_amount |-> mines_amount],
         status |-> status, stopwatch |-> stopwatch]

Inputs ==
    (CHOOSE cfg \in Configs :
        /\ cfg.rows = get_size(grid)[1]
        /\ cfg.columns = get_size(grid)[2]
        /\ cfg.mines = mines_amount).inputs

NoCall == <<"None">>

\* The session played without the terminal application.
NoApp == [variant |-> "None"]

Init ==
    /\ \E cfg \in Configs :
          LET game == Minesweeper_new(cfg.rows, cfg.columns, cfg.mines)
          IN  /\ IsOk(game)
              /\ grid = game[2].field.grid
              /\ mines_amount = game[2].field.mines_amount
              /\ status = game[2].status
              /\ stopwatch = game[2].stopwatch
    /\ now = 0
    /\ result = <<"None">>
    /\ crash = "none"
    /\ call = NoCall
    /\ app = NoApp

TakeAction(action_type) ==
    /\ crash = "none"
    /\ \E done \in take_action(Game, action_type, now) :
          IF done.crash # "none"
          THEN /\ crash' = done.crash
               /\ UNCHANGED <<grid, mines_amount, status, stopwatch, now,
                              result, call>>
          ELSE /\ grid' = done.game.field.grid
               /\ status' = done.game.status
               /\ stopwatch' = done.game.stopwatch
               /\ result' = done.result
               /\ UNCHANGED <<mines_amount, now, crash, call>>
    /\ UNCHANGED app

TogglePause ==
    /\ crash = "none"
    /\ LET toggled == toggle_pause(Game, now)
       IN  /\ status' = toggled.status
           /\ stopwatch' = toggled.stopwatch
    /\ result' = <<"None">>
    /\ UNCHANGED <<grid, mines_amount, now, crash, call>>
    /\ UNCHANGED app

Tick ==
    /\ crash = "none"
    /\ now < MaxTime
    /\ now' = now + 1
    /\ UNCHANGED <<grid, mines_amount, status, stopwatch, result, crash, call>>
    /\ UNCHANGED app

Next ==
    \/ \E kind \in ActionKinds, pos \in Inputs : TakeAction(<<kind, pos>>)
    \/ TogglePause
    \/ Tick

Spec == Init /\ [][Next]_vars

----------------------------------------------------------------------------
(* The Field specification: a populated field whose public methods          *)
(* open_cell, open_surrounding_cells and flag_cell are called directly, in  *)
(* any order. The small fields take every placement populate_with_mines     *)
(* can produce and every position; the 5x5 fields are the fixed layouts of  *)
(* the tests in src/field.rs, called at a few positions.                    *)

FieldConfigs ==
    {[rows |-> 1, columns |-> 4, mines |-> 1, inputs |-> AllInputs(1, 4)],
     [rows |-> 2, columns |-> 3, mines |-> 1, inputs |-> AllInputs(2, 3)]}

FixedLayouts ==
    {[rows |-> 5, columns |-> 5, mined |-> {<<0, 4>>, <<2, 4>>, <<4, 2>>},
      inputs |-> {<<1, 1>>, <<0, 3>>}],
     [rows |-> 5, columns |-> 5, mined |-> {<<0, 0>>},
      inputs |-> {<<1, 0>>, <<0, 0>>, <<0, 1>>}]}

\* The positions called on the field in `grid`.
FieldInputs ==
    IF \E l \in FixedLayouts :
           /\ l.rows = get_size(grid)[1]
           /\ l.columns = get_size(grid)[2]
    THEN (CHOOSE l \in FixedLayouts :
              /\ l.rows = get_size(grid)[1]
              /\ l.columns = get_size(grid)[2]
              /\ \A p \in Positions(grid) :
                     is_mined(CellAt(grid, p)) <=> p \in l.mined).inputs
    ELSE AllInputs(get_size(grid)[1], get_size(grid)[2])

FieldInitRest ==
    /\ status = Pre
    /\ stopwatch = Stopwatch_default
    /\ now = 0
    /\ result = <<"None">>
    /\ crash = "none"
    /\ call = NoCall
    /\ app = NoApp

FieldInit ==
    /\ \/ \E cfg \in FieldConfigs :
             \E placed \in populate_with_mines(
                     Field_new(cfg.rows, cfg.columns, cfg.mines)[2], None) :
                 /\ placed.kind = "Ok"
                 /\ grid = placed.grid
                 /\ mines_amount = cfg.mines
       \/ \E l \in FixedLayouts :
             LET new == Field_new(l.rows, l.columns, Cardinality(l.mined))[2]
             IN  /\ grid = Placed(new.grid, Flattened(new.grid), l.mined)
                 /\ mines_amount = new.mines_amount
    /\ FieldInitRest

\* A call of a recursive method: the grid it leaves, or the death of the
\* process when it never returns.
FieldCall(name, pos, opened) ==
    /\ crash = "none"
    /\ IF opened.overflow
       THEN /\ crash' = "stack overflow"
            /\ UNCHANGED <<grid, call>>
       ELSE /\ grid' = opened.grid
            /\ call' = <<name, pos>>
            /\ UNCHANGED crash
    /\ UNCHANGED <<mines_amount, status, stopwatch, now, result>>
    /\ UNCHANGED app

FieldOpenCell(pos) == FieldCall("open_cell", pos, open_cell(grid, pos))

FieldOpenSurroundingCells(pos) ==
    FieldCall("open_surrounding_cells", pos, open_surrounding_cells(grid, pos))

FieldFlagCell(pos) ==
    /\ crash = "none"
    /\ grid' = flag_cell(grid, pos)
    /\ call' = <<"flag_cell", pos>>
    /\ UNCHANGED <<mines_amount, status, stopwatch, now, result, crash>>
    /\ UNCHANGED app

FieldNext ==
    \/ \E pos \in FieldInputs : FieldOpenCell(pos)
    \/ \E pos \in FieldInputs : FieldOpenSurroundingCells(pos)
    \/ \E pos \in FieldInputs : FieldFlagCell(pos)

SpecField == FieldInit /\ [][FieldNext]_vars

----------------------------------------------------------------------------
(* The population specification: a field fresh from Field::new on which     *)
(* populate_with_mines is called, any number of times, without an excepted  *)
(* cell or with one inside or outside the field. One field has as many      *)
(* mines as its size allows, one has more than 256 cells.                   *)

ExceptedArguments(positions) == {None} \cup {Some(pos) : pos \in positions}

PopulateConfigs ==
    {[rows |-> 1, columns |-> 2, mines |-> 1,
      excepted |-> ExceptedArguments(AllInputs(1, 2))],
     [rows |-> 2, columns |-> 2, mines |-> 3,
      excepted |-> ExceptedArguments(AllInputs(2, 2))],
     [rows |-> 2, columns |-> 3, mines |-> 2,
      excepted |-> ExceptedArguments(AllInputs(2, 3))],
     [rows |-> 2, columns |-> 129, mines |-> 257,
      excepted |-> {Some(<<0, 1>>), Some(<<1, 127>>), Some(<<1, 128>>),
                    Some(<<2, 0>>)}]}

\* The arguments passed to populate_with_mines on the field in `grid`.
PopulateArguments ==
    (CHOOSE cfg \in PopulateConfigs :
        /\ cfg.rows = get_size(grid)[1]
        /\ cfg.columns = get_size(grid)[2]
        /\ cfg.mines = mines_amount).excepted

PopulateInit ==
    /\ \E cfg \in PopulateConfigs :
          LET new == Field_new(cfg.rows, cfg.columns, cfg.mines)
          IN  /\ IsOk(new)
              /\ grid = new[2].grid
              /\ mines_amount = new[2].mines_amount
    /\ FieldInitRest

FieldPopulateWithMines(excepted_cell_position) ==
    /\ crash = "none"
    /\ \E placed \in populate_with_mines(
               [grid |-> grid, mines_amount |-> mines_amount],
               excepted_cell_position) :
          IF placed.kind = "Panic"
          THEN /\ crash' = "panic"
               /\ UNCHANGED <<grid, result, call>>
          ELSE /\ grid' = IF placed.kind = "Ok" THEN placed.grid ELSE grid
               /\ result' = IF placed.kind = "Ok" THEN Ok(<<>>)
                            ELSE Err(placed.error)
               /\ call' = <<"populate_with_mines", excepted_cell_position>>
               /\ UNCHANGED crash
    /\ UNCHANGED <<mines_amount, status, stopwatch, now>>
    /\ UNCHANGED app

PopulateNext ==
    \E excepted_cell_position \in PopulateArguments :
        FieldPopulateWithMines(excepted_cell_position)

SpecPopulate == PopulateInit /\ [][PopulateNext]_vars

----------------------------------------------------------------------------
(* The construction specification: Field::new is called with every small    *)
(* combination of rows, columns and mines, and with the largest sizes a u8  *)
(* allows where it fails. There is no field before the first call, nor      *)
(* after a call that failed.                                                *)

NewArguments ==
    {<<rows_amount, columns_amount, mines>> :
        rows_amount \in 0..MaxNewSide,
        columns_amount \in 0..MaxNewSide,
        mines \in 0..(MaxNewSide * MaxNewSide + 1)}
    \cup {<<255, 255, 0>>, <<255, 255, 65025>>, <<0, 255, 1>>, <<255, 0, 0>>}

NewInit ==
    /\ grid = <<>>
    /\ mines_amount = 0
    /\ FieldInitRest

FieldNew(rows_amount, columns_amount, mines) ==
    /\ LET new == Field_new(rows_amount, columns_amount, mines)
       IN  IF IsOk(new)
           THEN /\ grid' = new[2].grid
                /\ mines_amount' = new[2].mines_amount
                /\ result' = Ok(<<>>)
           ELSE /\ grid' = <<>>
                /\ mines_amount' = 0
                /\ result' = new
    /\ call' = <<"new", rows_amount, columns_amount, mines>>
    /\ UNCHANGED <<status, stopwatch, now, crash>>
    /\ UNCHANGED app

NewNext == \E arguments \in NewArguments :
               FieldNew(arguments[1], arguments[2], arguments[3])

SpecNew == NewInit /\ [][NewNext]_vars

----------------------------------------------------------------------------
(* The stopwatch specification: a Stopwatch::default() on which start and   *)
(* stop are called in any order, start while running included, while the    *)
(* clock advances.                                                          *)

StopwatchInit ==
    /\ grid = <<>>
    /\ mines_amount = 0
    /\ FieldInitRest

StopwatchStart ==
    /\ stopwatch' = start(stopwatch, now)
    /\ call' = <<"start">>
    /\ UNCHANGED <<grid, mines_amount, status, now, result, crash>>
    /\ UNCHANGED app

StopwatchStop ==
    /\ stopwatch' = stop(stopwatch, now)
    /\ call' = <<"stop">>
    /\ UNCHANGED <<grid, mines_amount, status, now, result, crash>>
    /\ UNCHANGED app

StopwatchTick ==
    /\ now < MaxClock
    /\ now' = now + 1
    /\ UNCHANGED <<grid, mines_amount, status, stopwatch, result, crash, call>>
    /\ UNCHANGED app

StopwatchNext ==
    \/ StopwatchStart
    \/ StopwatchStop
    \/ StopwatchTick

SpecStopwatch == StopwatchInit /\ [][StopwatchNext]_vars

----------------------------------------------------------------------------
(* Vocabulary of the properties, stated on the cells' fields directly.     *)

InBounds(g, pos) == pos \in Positions(g)

IsOpenAt(g, pos) == CellAt(g, pos).state = Open
IsFlaggedAt(g, pos) == CellAt(g, pos).state = Closed(TRUE)
IsCoveredAt(g, pos) == CellAt(g, pos).state = Closed(FALSE)
IsMinedAt(g, pos) == CellAt(g, pos).variant = Mine
CountAt(g, pos) == CellAt(g, pos).variant[2]

OpenPositions(g) == {p \in Positions(g) : IsOpenAt(g, p)}
MinedPositions(g) == {p \in Positions(g) : IsMinedAt(g, p)}

Distance(a, b) == IF a >= b THEN a - b ELSE b - a

Adjacent(p, q) ==
    p # q /\ Distance(p[1], q[1]) <= 1 /\ Distance(p[2], q[2]) <= 1

Neighbours(g, pos) == {q \in Positions(g) : Adjacent(pos, q)}

FlaggedNeighbours(g, pos) == {q \in Neighbours(g, pos) : IsFlaggedAt(g, q)}

\* The covered cells a flood started on the covered cells of `region`
\* reaches: it continues from every zero-count cell it opened to that
\* cell's covered neighbours.
RECURSIVE FloodClosure(_, _)
FloodClosure(g, region) ==
    LET further ==
            region \cup
            {q \in Positions(g) :
                /\ IsCoveredAt(g, q)
                /\ \E p \in region :
                       /\ ~IsMinedAt(g, p)
                       /\ CountAt(g, p) = 0
                       /\ Adjacent(p, q)}
    IN  IF further = region THEN region ELSE FloodClosure(g, further)

EndStatuses == {End(TRUE), End(FALSE)}

----------------------------------------------------------------------------
(* Properties of the session (specification Spec).                         *)

\* What a step taken from an ended game must satisfy.
EndedGameRejectsActions ==
    status \in EndStatuses =>
        \A kind \in ActionKinds, pos \in Inputs :
            TakeAction(<<kind, pos>>) =>
                /\ result' = Err(<<"GameAlreadyEnded">>)
                /\ grid' = grid
                /\ status' = status
                /\ stopwatch' = stopwatch
                /\ crash' = crash

\* C1: once the status is End(_), every take_action call fails with
\* GameAlreadyEnded and leaves the field, the status and the stopwatch as
\* they were.
C1_EndedGameRejectsActions == [][EndedGameRejectsActions]_vars

\* C1 witness: the game has ended and the last call was refused.
C1_Witness ==
    /\ status \in EndStatuses
    /\ result = Err(<<"GameAlreadyEnded">>)

\* What a step taken before the first open must satisfy.
FirstOpenIsSafe ==
    status = Pre =>
        \A pos \in Inputs :
            (InBounds(grid, pos) /\ TakeAction(OpenCell(pos))
                /\ crash' = "none") =>
                /\ ~IsMinedAt(grid', pos)
                /\ status' \in {On, End(TRUE)}

\* C2: a take_action(OpenCell(pos)) issued while the status is Pre, with
\* pos in bounds, never makes the cell at pos a mine and never results in
\* End(false): when it returns, the status is On or End(true).
C2_FirstOpenIsSafe == [][FirstOpenIsSafe]_vars

\* What a step taken from a paused game must satisfy.
PausedGameIgnoresActions ==
    status = Pause =>
        \A kind \in ActionKinds, pos \in Inputs :
            TakeAction(<<kind, pos>>) =>
                /\ result' = Ok(Pause)
                /\ grid' = grid
                /\ status' = Pause
                /\ stopwatch.start_time = None
                /\ stopwatch' = stopwatch
                /\ crash' = crash

\* C3: while the status is Pause, every take_action call returns Ok(Pause)
\* and changes nothing; the stopwatch is stopped and stays stopped.
C3_PausedGameIgnoresActions == [][PausedGameIgnoresActions]_vars

\* C3 witness: the game is paused and the last call returned Ok(Pause).
C3_Witness ==
    /\ status = Pause
    /\ result = Ok(Pause)
    /\ OpenPositions(grid) # {}

\* C4: the status is End(false) if and only if at least one mined cell is
\* open.
C4_LossIffOpenMine ==
    status = End(FALSE) <=>
        \E p \in Positions(grid) : IsMinedAt(grid, p) /\ IsOpenAt(grid, p)

\* C4 witness: a lost game, returned by the call that opened the mine.
C4_Witness ==
    /\ status = End(FALSE)
    /\ result = Ok(End(FALSE))
    /\ \E p \in Positions(grid) : IsMinedAt(grid, p) /\ IsOpenAt(grid, p)

\* C5: the status is End(true) if and only if every non-mined cell of the
\* field is open.
C5_VictoryIffAllSafeOpen ==
    status = End(TRUE) <=>
        \A p \in Positions(grid) : ~IsMinedAt(grid, p) => IsOpenAt(grid, p)

\* C5 witness: a won game on a field with more than one safe cell.
C5_Witness ==
    /\ status = End(TRUE)
    /\ result = Ok(End(TRUE))
    /\ Cardinality(OpenPositions(grid)) > 1
    /\ MinedPositions(grid) # {}

\* What every step must leave of the flags: a flagged cell stays flagged
\* unless the step is take_action(FlagCell(p)) on that very cell.
FlagsSurviveActions ==
    \A p \in Positions(grid) :
        IsFlaggedAt(grid, p) =>
            \/ IsFlaggedAt(grid', p)
            \/ TakeAction(FlagCell(p))

\* C11: no action opens a flagged cell: every cell flagged before a
\* take_action call (OpenCell, OpenSurroundingCells, the alias, and the
\* reveal of the missed mines on a loss) is still closed and flagged after
\* it; only FlagCell on that same cell removes a flag.
C11_FlagsSurviveActions == [][FlagsSurviveActions]_vars

\* C11 witness: a game still on where a flagged mine sits next to an open
\* cell all of whose unflagged neighbours are open.
C11_Witness ==
    /\ status = On
    /\ result = Ok(On)
    /\ \E p \in Positions(grid) :
          /\ IsFlaggedAt(grid, p)
          /\ IsMinedAt(grid, p)
          /\ \E q \in Neighbours(grid, p) :
                /\ IsOpenAt(grid, q)
                /\ Neighbours(grid, q) \ {p} # {}
                /\ \A n \in Neighbours(grid, q) \ {p} : IsOpenAt(grid, n)

\* In a lost game every mine that was not flagged is open.
MissedMinesRevealed ==
    status = End(FALSE) =>
        \A p \in Positions(grid) :
            (IsMinedAt(grid, p) /\ ~IsFlaggedAt(grid, p)) => IsOpenAt(grid, p)

\* The step that loses the game keeps every flag.
LossKeepsFlags ==
    (status # End(FALSE) /\ status' = End(FALSE)) =>
        \A p \in Positions(grid) :
            IsFlaggedAt(grid, p) => IsFlaggedAt(grid', p)

\* C12: whenever the status is End(false), every mined cell that is not
\* flagged is open, and the flagged cells, mined or not, are still closed
\* and flagged.
C12_LossRevealsMissedMines == []MissedMinesRevealed /\ [][LossKeepsFlags]_vars

\* C12 witness: a game just lost on a field where a flagged mine stayed
\* closed and a mine other than the one stepped on was revealed.
C12_Witness ==
    /\ status = End(FALSE)
    /\ result = Ok(End(FALSE))
    /\ \E p \in Positions(grid) : IsMinedAt(grid, p) /\ IsFlaggedAt(grid, p)
    /\ Cardinality(MinedPositions(grid) \cap OpenPositions(grid)) >= 2

\* What every step taken from an ended game must satisfy.
EndIsTerminal ==
    status \in EndStatuses => (status' = status /\ grid' = grid)

\* C13: End is terminal: once the status is End(b), no take_action or
\* toggle_pause call changes the status or any cell of the field.
C13_EndIsTerminal == [][EndIsTerminal]_vars

\* C13 witness: toggle_pause was the last call on a lost game.
C13_Witness ==
    /\ status = End(FALSE)
    /\ result = <<"None">>

\* What a toggle_pause step must do.
TogglePauseStep ==
    TogglePause =>
        /\ grid' = grid
        /\ status' = IF status = On THEN Pause
                     ELSE IF status = Pause THEN On
                     ELSE status

\* A pause now and a resume at any later instant give back the status and
\* the field.
PauseResumeRoundTrip ==
    status = On =>
        \A t \in now..MaxTime :
            LET resumed == toggle_pause(toggle_pause(Game, now), t)
            IN  /\ resumed.status = On
                /\ resumed.field = Game.field

\* C14: toggle_pause moves On to Pause and Pause to On and does nothing in
\* Pre and End(_); it never changes a cell, and a pause followed by a resume
\* returns the session to the same status and board.
C14_TogglePause == [][TogglePauseStep]_vars /\ []PauseResumeRoundTrip

\* C14 witness: a game with open cells that has been paused and resumed.
C14_Witness ==
    /\ status = On
    /\ result = <<"None">>
    /\ OpenPositions(grid) # {}

\* What a take_action call must return.
ErrorsOnlyWhenEndedOrFirstOpenOutside ==
    \A kind \in ActionKinds, pos \in Inputs :
        TakeAction(<<kind, pos>>) =>
            IF status \in EndStatuses
            THEN result' = Err(<<"GameAlreadyEnded">>)
            ELSE IF status = Pre /\ kind = "OpenCell" /\ ~InBounds(grid, pos)
            THEN /\ result' = Err(<<"FieldError",
                                   <<"InvalidExceptedCellPosition", pos>>>>)
                 /\ status' = Pre
                 /\ grid' = grid
                 /\ stopwatch' = stopwatch
            ELSE /\ crash' = "none"
                 /\ result'[1] = "Ok"

\* C15: take_action returns an error in exactly two situations: the status
\* is End(_) (GameAlreadyEnded), or the status is Pre and the action is
\* OpenCell(pos) with pos outside the field (InvalidExceptedCellPosition(pos),
\* with the status, the field and the stopwatch left as they were); every
\* other call returns Ok.
C15_ErrorsOnlyWhenEndedOrFirstOpenOutside ==
    [][ErrorsOnlyWhenEndedOrFirstOpenOutside]_vars

----------------------------------------------------------------------------
(* Properties of the Field (specification SpecField).                      *)

\* What an open_cell call on a covered zero-count cell must do.
OpenCellFloods ==
    \A pos \in FieldInputs :
        (/\ InBounds(grid, pos)
         /\ IsCoveredAt(grid, pos)
         /\ ~IsMinedAt(grid, pos)
         /\ CountAt(grid, pos) = 0
         /\ FieldOpenCell(pos)
         /\ crash' = "none") =>
            /\ OpenPositions(grid') =
                   OpenPositions(grid) \cup FloodClosure(grid, {pos})
            /\ MinedPositions(grid') \cap OpenPositions(grid') =
                   MinedPositions(grid) \cap OpenPositions(grid)

\* C6: open_cell(pos) on a closed, unflagged cell whose count is 0 opens
\* exactly the region reachable from pos through chains of zero-count cells
\* together with the numbered cells bordering it, and no mined cell (on the
\* 5x5 field with mines at (0,4), (2,4), (4,2), opening (1,1) opens 18
\* cells).
C6_OpenCellFloods == [][OpenCellFloods]_vars

\* What an open_cell call must leave alone.
OpenCellNoOp ==
    \A pos \in FieldInputs :
        (/\ \/ ~InBounds(grid, pos)
            \/ IsOpenAt(grid, pos)
            \/ IsFlaggedAt(grid, pos)
         /\ FieldOpenCell(pos)
         /\ crash' = "none") =>
            grid' = grid

\* C7: open_cell(pos) changes no cell when pos is out of bounds, when the
\* cell at pos is already open, or when it is flagged.
C7_OpenCellNoOp == [][OpenCellNoOp]_vars

\* C8: open_cell(pos) terminates on every reachable field state and every
\* position: no call recurses without end.
C8_OpenCellTerminates == crash # "stack overflow"

\* The condition of the chord: the cell at pos is open, not mined, and
\* exactly as many of its neighbours are flagged as its count says.
ChordCase(g, pos) ==
    /\ InBounds(g, pos)
    /\ IsOpenAt(g, pos)
    /\ ~IsMinedAt(g, pos)
    /\ Cardinality(FlaggedNeighbours(g, pos)) = CountAt(g, pos)

\* What a chord must open.
ChordOpensNeighbours ==
    \A pos \in FieldInputs :
        (/\ ChordCase(grid, pos)
         /\ FieldOpenSurroundingCells(pos)
         /\ crash' = "none") =>
            /\ \A q \in Neighbours(grid, pos) :
                   ~IsFlaggedAt(grid, q) => IsOpenAt(grid', q)
            /\ FloodClosure(grid,
                   {q \in Neighbours(grid, pos) : IsCoveredAt(grid, q)})
                       \subseteq OpenPositions(grid')

\* C9: open_surrounding_cells(p), when the cell at p is open with count n
\* and exactly n of its neighbours are flagged, opens every unflagged
\* neighbour of p, and the flood continues from the zero-count neighbours.
C9_ChordOpensNeighbours == [][ChordOpensNeighbours]_vars

\* What a chord must leave alone.
ChordNoOp ==
    \A pos \in FieldInputs :
        (~ChordCase(grid, pos) /\ FieldOpenSurroundingCells(pos)) =>
            /\ grid' = grid
            /\ crash' = crash

\* C10: open_surrounding_cells(p) leaves the whole field unchanged when p
\* is out of bounds, when the cell at p is closed, flagged or mined, or
\* when the number of flagged neighbours of p differs from its count.
C10_ChordNoOp == [][ChordNoOp]_vars

\* C10 witness: the last call was a chord on an open cell with a covered
\* neighbour and a number of flagged neighbours other than its count.
C10_Witness ==
    /\ call[1] = "open_surrounding_cells"
    /\ InBounds(grid, call[2])
    /\ IsOpenAt(grid, call[2])
    /\ ~IsMinedAt(grid, call[2])
    /\ Cardinality(FlaggedNeighbours(grid, call[2])) # CountAt(grid, call[2])
    /\ \E q \in Neighbours(grid, call[2]) : IsCoveredAt(grid, q)

----------------------------------------------------------------------------
(* Properties of populate_with_mines (specification SpecPopulate).         *)

\* The last call of populate_with_mines returned Ok(()).
Populated == result = Ok(<<>>)

MinedNeighbours(g, pos) == {q \in Neighbours(g, pos) : IsMinedAt(g, q)}

\* C16: a successful populate_with_mines, with or without an excepted
\* cell, leaves exactly mines_amount cells mined, also when mines_amount is
\* rows * columns - 1 and a cell is excepted.
C16_PopulatePlacesMinesAmount ==
    Populated => Cardinality(MinedPositions(grid)) = mines_amount

\* C16 witness: a field populated with as many mines as it has cells but
\* one, more than one of them, around an excepted cell.
C16_Witness ==
    /\ Populated
    /\ call[2] # None
    /\ mines_amount = Cardinality(Positions(grid)) - 1
    /\ Cardinality(MinedPositions(grid)) > 1

\* What a successful populate_with_mines(Some(p)) must leave at p.
ExceptedCellStaysSafe ==
    \A excepted_cell_position \in PopulateArguments \ {None} :
        LET pos == excepted_cell_position[1]
            at == ExceptedIndex(pos[1], pos[2], get_size(grid)[2])
        IN  (/\ InBounds(grid, pos)
             /\ FieldPopulateWithMines(excepted_cell_position)
             /\ result' = Ok(<<>>)) =>
                /\ Flattened(grid)[at.index + 1] = pos
                /\ ~IsMinedAt(grid', pos)

\* C17: for every legal field size and every in-bounds position p, after
\* populate_with_mines(Some(p)) the cell at p is not mined, whatever the
\* placement: the flattened index row * columns + column, computed in 8-bit
\* arithmetic, designates the cell at p.
C17_ExceptedCellStaysSafe == [][ExceptedCellStaysSafe]_vars

\* C18: after a successful populate_with_mines, the count stored in every
\* non-mined cell is the number of mined cells among its in-bounds
\* neighbours, between 0 and 8.
C18_CountsMatchMines ==
    Populated =>
        \A p \in Positions(grid) :
            ~IsMinedAt(grid, p) =>
                /\ CountAt(grid, p) = Cardinality(MinedNeighbours(grid, p))
                /\ CountAt(grid, p) \in 0..8

\* C18 witness: a populated field with a non-mined cell that has mines
\* both beside it and diagonally.
C18_Witness ==
    /\ Populated
    /\ \E p \in Positions(grid) :
          /\ ~IsMinedAt(grid, p)
          /\ CountAt(grid, p) >= 2
          /\ \E q \in MinedNeighbours(grid, p) : q[1] # p[1] /\ q[2] # p[2]

\* What populate_with_mines must do on a field that has mines, when its
\* argument is None or a position of the field.
SecondPopulateFails ==
    \A excepted_cell_position \in PopulateArguments :
        (/\ MinedPositions(grid) # {}
         /\ \/ excepted_cell_position = None
            \/ InBounds(grid, excepted_cell_position[1])
         /\ FieldPopulateWithMines(excepted_cell_position)) =>
            /\ result' = Err(<<"MinesAlreadyExist">>)
            /\ grid' = grid
            /\ crash' = crash

OutsideExceptedFails ==
    \A excepted_cell_position \in PopulateArguments \ {None} :
        (/\ ~InBounds(grid, excepted_cell_position[1])
         /\ FieldPopulateWithMines(excepted_cell_position)) =>
            /\ result' = Err(<<"InvalidExceptedCellPosition",
                               excepted_cell_position[1]>>)
            /\ grid' = grid
            /\ crash' = crash

\* C20: populate_with_mines(Some(p)) with p outside the field (row index >=
\* rows or column index >= columns) fails with
\* InvalidExceptedCellPosition(p) and places no mine; the check comes before
\* the one for MinesAlreadyExist.
C20_OutsideExceptedFails == [][OutsideExceptedFails]_vars

\* C20 witness: the last call, on a field that has mines, was refused for a
\* column index equal to the number of columns.
C20_Witness ==
    /\ MinedPositions(grid) # {}
    /\ call[1] = "populate_with_mines"
    /\ call[2] = Some(<<0, get_size(grid)[2]>>)
    /\ result = Err(<<"InvalidExceptedCellPosition", call[2][1]>>)

----------------------------------------------------------------------------
(* Properties of Field::new (specification SpecNew).                       *)

\* C21: Field::new(rows, columns, mines) fails with NotEnoughCells exactly
\* when rows * columns < 2, fails with InvalidMinesAmount(rows * columns - 1)
\* exactly when rows * columns >= 2 and mines < 1 or mines > rows * columns
\* - 1, and succeeds otherwise with every cell closed, unflagged and empty
\* with count 0.
C21_NewChecksItsArguments ==
    call[1] = "new" =>
        LET rows_amount == call[2]
            columns_amount == call[3]
            mines == call[4]
            cells == rows_amount * columns_amount
        IN  IF cells < 2
            THEN result = Err(<<"NotEnoughCells">>)
            ELSE IF mines < 1 \/ mines > cells - 1
            THEN result = Err(<<"InvalidMinesAmount", cells - 1>>)
            ELSE /\ result = Ok(<<>>)
                 /\ mines_amount = mines
                 /\ Len(grid) = rows_amount
                 /\ \A r \in 1..rows_amount :
                       /\ Len(grid[r]) = columns_amount
                       /\ \A c \in 1..columns_amount :
                             grid[r][c] = [position |-> <<r - 1, c - 1>>,
                                           variant |-> <<"Empty", 0>>,
                                           state |-> <<"Closed", FALSE>>]

\* C21 witness: the last call asked for one mine fewer than the cells of a
\* field of more than one row, and got the field.
C21_Witness ==
    /\ call[1] = "new"
    /\ call[2] > 1
    /\ call[4] = call[2] * call[3] - 1
    /\ result = Ok(<<>>)
    /\ Len(grid) = call[2]

----------------------------------------------------------------------------
(* More properties of the Field (specification SpecField).                 *)

\* The grid with the state of the cell at pos replaced.
WithStateAt(g, pos, state) ==
    [g EXCEPT ![pos[1] + 1][pos[2] + 1].state = state]

\* What a flag_cell call must do.
FlagCellToggles ==
    \A pos \in FieldInputs :
        FieldFlagCell(pos) =>
            IF InBounds(grid, pos) /\ IsCoveredAt(grid, pos)
            THEN /\ grid' = WithStateAt(grid, pos, <<"Closed", TRUE>>)
                 /\ flag_cell(grid', pos) = grid
            ELSE IF InBounds(grid, pos) /\ IsFlaggedAt(grid, pos)
            THEN grid' = WithStateAt(grid, pos, <<"Closed", FALSE>>)
            ELSE grid' = grid

\* C22: one toggle-flag call on a closed, unflagged cell makes it flagged
\* and a second one restores it to closed and unflagged; a call on an open
\* cell or on a position outside the field changes nothing, so an open cell
\* is never flagged.
C22_FlagCellToggles == [][FlagCellToggles]_vars

\* C22 witness: the last call was flag_cell on a cell that is open.
C22_Witness ==
    /\ call[1] = "flag_cell"
    /\ InBounds(grid, call[2])
    /\ IsOpenAt(grid, call[2])

\* What an open_cell call on a covered numbered cell must do.
OpenCellOpensNumberedCellOnly ==
    \A pos \in FieldInputs :
        (/\ InBounds(grid, pos)
         /\ IsCoveredAt(grid, pos)
         /\ ~IsMinedAt(grid, pos)
         /\ CountAt(grid, pos) >= 1
         /\ FieldOpenCell(pos)) =>
            /\ grid' = WithStateAt(grid, pos, <<"Open">>)
            /\ crash' = crash

\* C30: open_cell(pos) on a closed, unflagged, non-mined cell whose count
\* is at least 1 opens that cell and no other cell.
C30_OpenCellOpensNumberedCellOnly == [][OpenCellOpensNumberedCellOnly]_vars

\* C30 witness: the last call was open_cell on a numbered cell, now open,
\* beside a zero-count cell that is still covered.
C30_Witness ==
    /\ call[1] = "open_cell"
    /\ InBounds(grid, call[2])
    /\ IsOpenAt(grid, call[2])
    /\ ~IsMinedAt(grid, call[2])
    /\ CountAt(grid, call[2]) >= 1
    /\ \E q \in Neighbours(grid, call[2]) :
          /\ IsCoveredAt(grid, q)
          /\ ~IsMinedAt(grid, q)
          /\ CountAt(grid, q) = 0

----------------------------------------------------------------------------
(* More properties of the session (specification Spec).                    *)

\* C23: in every session state with status Pre or On and for every
\* position pos, take_action(OpenCellOrSurroundingCells(pos)) has the
\* outcome of take_action(OpenSurroundingCells(pos)) when the cell at pos is
\* open, the possible outcomes of take_action(OpenCell(pos)) when the cell
\* exists and is not open, and changes nothing and returns Ok when pos has
\* no cell.
C23_AliasResolves ==
    (status \in {Pre, On} /\ crash = "none") =>
        \A pos \in Inputs :
            LET alias == take_action(Game, OpenCellOrSurroundingCells(pos), now)
            IN  IF ~InBounds(grid, pos)
                THEN alias = {Returns(Game, Ok(status))}
                ELSE IF IsOpenAt(grid, pos)
                THEN alias = take_action(Game, OpenSurroundingCells(pos), now)
                ELSE alias = take_action(Game, OpenCell(pos), now)

\* C23 witness: a game that is on, with an open cell on which the alias
\* opens further cells.
C23_Witness ==
    /\ status = On
    /\ crash = "none"
    /\ \E pos \in Inputs :
          /\ InBounds(grid, pos)
          /\ IsOpenAt(grid, pos)
          /\ \E done \in take_action(Game, OpenCellOrSurroundingCells(pos), now) :
                /\ done.crash = "none"
                /\ OpenPositions(done.game.field.grid) # OpenPositions(grid)

\* What a step taken before the first open must satisfy.
PreOnlyFlags ==
    /\ status = Pre =>
          \A kind \in {"OpenSurroundingCells", "FlagCell"}, pos \in Inputs :
              TakeAction(<<kind, pos>>) =>
                  /\ result' = Ok(Pre)
                  /\ status' = Pre
                  /\ stopwatch' = stopwatch
                  /\ crash' = crash
                  /\ MinedPositions(grid') = {}
                  /\ OpenPositions(grid') = {}
                  /\ IF kind = "FlagCell" /\ InBounds(grid, pos)
                     THEN grid' = WithStateAt(grid, pos,
                                      <<"Closed", ~IsFlaggedAt(grid, pos)>>)
                     ELSE grid' = grid
    /\ (MinedPositions(grid) = {} /\ MinedPositions(grid') # {}) =>
          \E pos \in Inputs :
              \/ TakeAction(OpenCell(pos))
              \/ TakeAction(OpenCellOrSurroundingCells(pos))

\* C24: while the status is Pre, take_action with OpenSurroundingCells(pos)
\* or FlagCell(pos) returns Ok(Pre), places no mine and opens no cell; the
\* only possible change is the flag of the cell at pos under FlagCell.
\* Mines are placed only by an OpenCell action (issued as such, or as the
\* alias that resolves to it).
C24_PreOnlyFlags == [][PreOnlyFlags]_vars

\* C24 witness: a game not started, with a flag, whose last call returned
\* Ok(Pre).
C24_Witness ==
    /\ status = Pre
    /\ result = Ok(Pre)
    /\ \E p \in Positions(grid) : IsFlaggedAt(grid, p)

\* What a step that leaves Pre must satisfy.
LeavesPreOnOpen ==
    (status = Pre /\ status' # Pre) =>
        \E pos \in Inputs :
            /\ InBounds(grid, pos)
            /\ \/ TakeAction(OpenCell(pos))
               \/ TakeAction(OpenCellOrSurroundingCells(pos))
            /\ IsOpenAt(grid', pos)

\* C25: the status leaves Pre only on the first successful open: in every
\* take_action call that changes the status from Pre to On or to End(_),
\* the cell at the position given to OpenCell is open when the call returns.
C25_LeavesPreOnOpen == [][LeavesPreOnOpen]_vars

\* A field has no mines before the first open, and no call was refused
\* with MinesAlreadyExist.
PopulateGated ==
    /\ result # Err(<<"FieldError", <<"MinesAlreadyExist">>>>)
    /\ status = Pre => MinedPositions(grid) = {}

\* Once placed, the mines stay where they are.
MinesPlacedOnce ==
    MinedPositions(grid) # {} => MinedPositions(grid') = MinedPositions(grid)

\* C26: no sequence of take_action and toggle_pause calls makes
\* populate_with_mines fail with MinesAlreadyExist: it is invoked only while
\* no cell is mined, and succeeds at most once per session.
C26_PopulateOnce == []PopulateGated /\ [][MinesPlacedOnce]_vars

\* C26 witness: a game that is on after several opens.
C26_Witness ==
    /\ status = On
    /\ result = Ok(On)
    /\ MinedPositions(grid) # {}
    /\ Cardinality(OpenPositions(grid)) >= 2

\* The session's stopwatch runs exactly while the status is On.
RunningIffOn == (stopwatch.start_time # None) <=> (status = On)

\* get_time() never decreases and advances only from a status of On, and
\* a running stopwatch is not started again.
TimeAdvancesOnlyWhenOn ==
    /\ get_time(Game', now') >= get_time(Game, now)
    /\ status # On => get_time(Game', now') = get_time(Game, now)
    /\ stopwatch'.start_time # stopwatch.start_time =>
          (stopwatch.start_time = None \/ stopwatch'.start_time = None)

\* C29: after any sequence of take_action and toggle_pause calls, the
\* session's stopwatch is running if and only if the status is On; hence
\* get_time() does not advance while the status is Pre, Pause or End(_),
\* never decreases, and start() is never called on a running stopwatch.
C29_StopwatchFollowsStatus == []RunningIffOn /\ [][TimeAdvancesOnlyWhenOn]_vars

\* C29 witness: a paused game whose stopwatch holds the time it was on.
C29_Witness ==
    /\ status = Pause
    /\ stopwatch.start_time = None
    /\ stopwatch.elapsed >= 1
    /\ now = stopwatch.elapsed

----------------------------------------------------------------------------
(* Properties of the Stopwatch (specification SpecStopwatch).              *)

Running(sw) == sw.start_time # None

\* What every step must do to the elapsed time: a tick adds one unit to a
\* running stopwatch and nothing to a stopped one, a call adds nothing and
\* takes nothing away.
StopwatchKeepsTime ==
    /\ get_elapsed_time(stopwatch', now') >= get_elapsed_time(stopwatch, now)
    /\ get_elapsed_time(stopwatch', now') =
           get_elapsed_time(stopwatch, now)
               + (IF Running(stopwatch) THEN now' - now ELSE 0)

\* C27: for any sequence of start(), stop() and clock advances on a
\* Stopwatch, get_elapsed_time() never decreases from one observation to the
\* next, and no running time is lost or counted twice, start() on a running
\* stopwatch included.
C27_StopwatchKeepsTime == [][StopwatchKeepsTime]_vars

\* From a stopped stopwatch: start, a units, stop, b units, start, c units,
\* stop reports a + c more; the value stays while stopped, and a stop on the
\* stopped stopwatch changes nothing. A stopwatch never started reports 0.
StoppedCountsIntervals ==
    /\ call = NoCall => get_elapsed_time(stopwatch, now) = 0
    /\ ~Running(stopwatch) =>
          \A a \in 0..MaxClock, b \in 0..MaxClock, c \in 0..MaxClock :
              LET before == get_elapsed_time(stopwatch, now)
                  s1 == start(stopwatch, now)
                  s2 == stop(s1, now + a)
                  s3 == start(s2, now + a + b)
                  s4 == stop(s3, now + a + b + c)
              IN  /\ get_elapsed_time(s1, now + a) = before + a
                  /\ get_elapsed_time(s2, now + a) = before + a
                  /\ get_elapsed_time(s2, now + a + b) = before + a
                  /\ stop(s2, now + a + b) = s2
                  /\ get_elapsed_time(s4, now + a + b + c) = before + a + c

\* What the steps of a stopped stopwatch must satisfy.
StoppedStaysPut ==
    ~Running(stopwatch) =>
        /\ StopwatchStop => stopwatch' = stopwatch
        /\ StopwatchTick =>
              get_elapsed_time(stopwatch', now') = get_elapsed_time(stopwatch, now)

\* C28: a Stopwatch counts exactly the time spent between a start() and
\* the following stop(): never started, it reports 0; after start, a units,
\* stop, b units, start, c units, stop it reports a + c; the reported value
\* does not change while stopped, and stop() on a stopped stopwatch changes
\* nothing.
C28_StopwatchCountsIntervals ==
    []StoppedCountsIntervals /\ [][StoppedStaysPut]_vars

\* C28 witness: a stopwatch stopped after running, that has since been
\* stopped for a while.
C28_Witness ==
    /\ call = <<"stop">>
    /\ ~Running(stopwatch)
    /\ stopwatch.elapsed >= 2
    /\ now > stopwatch.elapsed

----------------------------------------------------------------------------
(* Properties of the session's play (specification Spec).                  *)

\* The neighbours of pos that are mined and not flagged.
MissedNeighbours(g, pos) ==
    {q \in Neighbours(g, pos) : IsMinedAt(g, q) /\ ~IsFlaggedAt(g, q)}

\* What a chord over misplaced flags must do.
MisflaggedChordLoses ==
    status = On =>
        \A pos \in Inputs :
            (/\ ChordCase(grid, pos)
             /\ MissedNeighbours(grid, pos) # {}
             /\ TakeAction(OpenSurroundingCells(pos))) =>
                /\ crash' = "none"
                /\ status' = End(FALSE)
                /\ result' = Ok(End(FALSE))
                /\ \A q \in MissedNeighbours(grid, pos) : IsOpenAt(grid', q)

\* C31: if the cell at p is open with count n, exactly n of its neighbours
\* are flagged and some unflagged neighbour of p is mined, then
\* take_action(OpenSurroundingCells(p)) opens that mine and the resulting
\* status is End(false).
C31_MisflaggedChordLoses == [][MisflaggedChordLoses]_vars

\* The fields of the smallest legal size: two cells and one mine.
MinimumField == Cardinality(Positions(grid)) = 2 /\ mines_amount = 1

\* What the calls made before the first open must do on a field of the
\* smallest size.
MinimumFieldPlays ==
    (status = Pre /\ MinimumField) =>
        \A pos \in Positions(grid) :
            /\ TakeAction(OpenCell(pos)) =>
                  /\ crash' = "none"
                  /\ MinedPositions(grid') = Positions(grid) \ {pos}
                  /\ OpenPositions(grid') = {pos}
                  /\ result' = Ok(End(TRUE))
                  /\ status' = End(TRUE)
            /\ TakeAction(FlagCell(pos)) =>
                  grid' = WithStateAt(grid, pos,
                              <<"Closed", ~IsFlaggedAt(grid, pos)>>)
            /\ TakeAction(OpenSurroundingCells(pos)) => grid' = grid

\* C32: on a field of minimum legal size (2 cells, 1 mine), the first
\* OpenCell on either in-bounds cell places the mine on the other cell,
\* opens the target and returns End(true) in that same call; FlagCell and
\* OpenSurroundingCells behave on it as on any other field.
C32_MinimumFieldPlays == [][MinimumFieldPlays]_vars

\* What every step taken after the placement must leave of a cell's content.
ContentStaysPut ==
    MinedPositions(grid) # {} =>
        \A p \in Positions(grid) :
            CellAt(grid', p).variant = CellAt(grid, p).variant

\* C33: after the mines are placed, no take_action or toggle_pause call
\* changes any cell's content: the set of mined cells and every
\* adjacent-mine count stay exactly as the placement left them.
C33_ContentStaysPut == [][ContentStaysPut]_vars

\* C33 witness: a populated field in play after a pause, a flag and an
\* open: a flagged cell, an open cell with a count and all the mines there.
C33_Witness ==
    /\ status = On
    /\ stopwatch.elapsed > 0
    /\ Cardinality(MinedPositions(grid)) = mines_amount
    /\ \E p \in Positions(grid) : IsFlaggedAt(grid, p)
    /\ \E p \in Positions(grid) :
          IsOpenAt(grid, p) /\ ~IsMinedAt(grid, p) /\ CountAt(grid, p) > 0

\* C34: the status is Pre if and only if no cell of the field is mined;
\* whenever the status is On, Pause or End(_), exactly mines_amount cells
\* are mined; no cell is open while the status is Pre.
C34_StatusTellsPlacement ==
    /\ status = Pre <=> MinedPositions(grid) = {}
    /\ status # Pre => Cardinality(MinedPositions(grid)) = mines_amount
    /\ status = Pre => OpenPositions(grid) = {}

\* C34 witness: a paused game on a field with several mines, all placed.
C34_Witness ==
    /\ status = Pause
    /\ mines_amount > 1
    /\ Cardinality(MinedPositions(grid)) = mines_amount

\* What every step must leave of the open cells.
OpenStaysOpen ==
    \A p \in Positions(grid) : IsOpenAt(grid, p) => IsOpenAt(grid', p)

\* C36: opening is irreversible: across any sequence of take_action and
\* toggle_pause calls, a cell that is open stays open (it never becomes
\* closed or flagged), so the number of open cells never decreases.
C36_OpenStaysOpen == [][OpenStaysOpen]_vars

\* C36 witness: a game in play for a while, with several open cells and a
\* safe cell still covered.
C36_Witness ==
    /\ status = On
    /\ result = Ok(On)
    /\ now > 0
    /\ Cardinality(OpenPositions(grid)) >= 2
    /\ \E p \in Positions(grid) : IsCoveredAt(grid, p) /\ ~IsMinedAt(grid, p)

----------------------------------------------------------------------------
(* The status specification: update_status, with check_victory_or_loss,     *)
(* applied to fields in every combination of open cells. The fields are     *)
(* populated, the game is on, and open_cell is called on the field any      *)
(* number of times between two calls of update_status, so that a mine and   *)
(* the last safe cell can both be open when the status is computed.         *)

StatusConfigs ==
    {[rows |-> 1, columns |-> 2, mines |-> 1],
     [rows |-> 1, columns |-> 3, mines |-> 1],
     [rows |-> 2, columns |-> 2, mines |-> 2]}

StatusInit ==
    /\ \E cfg \in StatusConfigs :
          \E placed \in populate_with_mines(
                  Field_new(cfg.rows, cfg.columns, cfg.mines)[2], None) :
              /\ placed.kind = "Ok"
              /\ grid = placed.grid
              /\ mines_amount = cfg.mines
    /\ status = On
    /\ stopwatch = start(Stopwatch_default, 0)
    /\ now = 0
    /\ result = <<"None">>
    /\ crash = "none"
    /\ call = NoCall
    /\ app = NoApp

StatusOpenCell(pos) == status = On /\ FieldOpenCell(pos)

UpdateStatus ==
    /\ crash = "none"
    /\ LET updated == update_status(Game, now)
       IN  /\ grid' = updated.field.grid
           /\ status' = updated.status
           /\ stopwatch' = updated.stopwatch
    /\ call' = <<"update_status">>
    /\ UNCHANGED <<mines_amount, now, result, crash>>
    /\ UNCHANGED app

StatusNext ==
    \/ \E pos \in Positions(grid) : StatusOpenCell(pos)
    \/ UpdateStatus

SpecStatus == StatusInit /\ [][StatusNext]_vars

----------------------------------------------------------------------------
(* Properties of the status computation (specification SpecStatus).        *)

\* Some mined cell of g is open.
MineIsOpen(g) == \E p \in Positions(g) : IsMinedAt(g, p) /\ IsOpenAt(g, p)

\* Every non-mined cell of g is open.
AllSafeOpen(g) == \A p \in Positions(g) : ~IsMinedAt(g, p) => IsOpenAt(g, p)

\* What update_status must do when the loss and the victory come together.
LossBeforeVictory ==
    (MineIsOpen(grid) /\ AllSafeOpen(grid) /\ UpdateStatus) =>
        status' = End(FALSE)

\* C35: loss takes priority over victory: if after an action some mined
\* cell is open and at the same time every non-mined cell is open, the
\* status becomes End(false), never End(true).
C35_LossBeforeVictory ==
    [](status = End(TRUE) => ~MineIsOpen(grid)) /\ [][LossBeforeVictory]_vars

\* C35 witness: update_status has just made a loss of a field where a mine
\* is open and every safe cell is open too, more than one of them.
C35_Witness ==
    /\ call = <<"update_status">>
    /\ status = End(FALSE)
    /\ MineIsOpen(grid)
    /\ AllSafeOpen(grid)
    /\ Cardinality(Positions(grid) \ MinedPositions(grid)) > 1

----------------------------------------------------------------------------
(* The terminal application (src/bin/main/app.rs, src/bin/main/game_ui.rs, *)
(* src/bin/update.rs, src/main.rs): the game view around a session. The    *)
(* session is the AppGame's `game`, kept in grid, mines_amount, status and  *)
(* stopwatch; `app` holds the rest of the AppGame, the App's variant and    *)
(* should_quit, and the position of the main loop, which draws before it    *)
(* takes each event.                                                        *)

ARROW_SYMBOL_SIZE == 1
CELL_HEIGHT == 3
CELL_WIDTH == 5

\* The field container holds up to MaxVisible rows and columns of cells.
MaxVisible == 3

\* cmp::min and u8::saturating_sub
Min(a, b) == IF a < b THEN a ELSE b
saturating_sub(a, b) == IF a >= b THEN a - b ELSE 0

\* An 8-bit or 16-bit value after the arithmetic wrapped around.
Wrapped(x, range) == (x + range) % range

\* AppGame::new, with the App around it.
AppGame_new ==
    [variant |-> "InGame",
     pc |-> "draw",
     visible_rows_amount |-> 0,
     visible_columns_amount |-> 0,
     window_offset |-> <<0, 0>>,
     cursor_position |-> <<0, 0>>,
     awaiting_leave_confirmation |-> FALSE,
     should_leave |-> FALSE,
     should_emergency_leave |-> FALSE,
     should_quit |-> FALSE]

\* The amount of cells of one axis shown in a container of the given size:
\* `overflow` tells whether the u8 sum or the u16 difference left its type.
calculate_visible_amount(container_size, cell_size, total_amount) ==
    LET needed == cell_size * total_amount + ARROW_SYMBOL_SIZE * 2
        left == container_size - ARROW_SYMBOL_SIZE * 2
    IN  IF Wrapped(needed, U8Range) <= container_size
        THEN [value |-> total_amount, overflow |-> needed >= U8Range]
        ELSE [value |-> AsU8(Wrapped(left, 65536) \div cell_size),
              overflow |-> needed >= U8Range \/ left < 0]

calculate_visible_rows_amount(field_container, total_rows_amount) ==
    calculate_visible_amount(field_container.height, CELL_HEIGHT,
                             total_rows_amount)

calculate_visible_columns_amount(field_container, total_columns_amount) ==
    calculate_visible_amount(field_container.width, CELL_WIDTH,
                             total_columns_amount)

\* The positions render_game looks up with get_cell: one per cell of the
\* grid layout, moved by the window offset.
RenderedPositions(a) ==
    {<<AsU8(row_index + a.window_offset[1]),
       AsU8(column_index + a.window_offset[2])>> :
        row_index \in 0..(a.visible_rows_amount - 1),
        column_index \in 0..(a.visible_columns_amount - 1)}

\* render_game in a field container of the given size: the AppGame it
\* leaves, or the panic it dies of.
render_game(a, g, st, field_container) ==
    LET size == get_size(g)
        rows == calculate_visible_rows_amount(field_container, size[1])
        columns == calculate_visible_columns_amount(field_container, size[2])
        drawn == [a EXCEPT !.visible_rows_amount = rows.value,
                           !.visible_columns_amount = columns.value]
        index_overflow ==
            \/ a.window_offset[1] + drawn.visible_rows_amount > U8Range
            \/ a.window_offset[2] + drawn.visible_columns_amount > U8Range
        rendered ==
            IF st # Pause /\ \E pos \in RenderedPositions(drawn) :
                                 get_cell(g, pos) = None
            THEN [kind |-> "Panic", why |-> "expect"]
            ELSE [kind |-> "Ok", app |-> drawn]
    IN  IF rows.overflow \/ columns.overflow
           \/ (st # Pause /\ index_overflow)
        THEN {[kind |-> "Panic", why |-> "overflow"], rendered}
        ELSE {rendered}

\* The new window offset of one axis (the blocks computing new_oy and
\* new_ox): `overflow` tells whether an 8-bit intermediate left 0..255.
new_offset(c, o, visible_amount, field_size) ==
    LET sum == o + visible_amount
        upper == Wrapped(sum, U8Range) - 2
        next == o + 1
        room == field_size - visible_amount
    IN  IF c > Wrapped(upper, U8Range)
        THEN [value |-> Min(Wrapped(next, U8Range), Wrapped(room, U8Range)),
              overflow |-> sum >= U8Range \/ upper < 0
                              \/ next >= U8Range \/ room < 0]
        ELSE IF c < Wrapped(next, U8Range)
        THEN [value |-> saturating_sub(o, 1),
              overflow |-> sum >= U8Range \/ upper < 0 \/ next >= U8Range]
        ELSE [value |-> o,
              overflow |-> sum >= U8Range \/ upper < 0 \/ next >= U8Range]

\* The new cursor position: `overflow` as above.
new_cursor(a, g, direction) ==
    LET size == get_size(g)
        cy == a.cursor_position[1]
        cx == a.cursor_position[2]
    IN  CASE direction = "Up" ->
                [value |-> <<saturating_sub(cy, 1), cx>>, overflow |-> FALSE]
          [] direction = "Left" ->
                [value |-> <<cy, saturating_sub(cx, 1)>>, overflow |-> FALSE]
          [] direction = "Down" ->
                [value |-> <<Min(Wrapped(cy + 1, U8Range),
                                 Wrapped(size[1] - 1, U8Range)), cx>>,
                 overflow |-> cy + 1 >= U8Range \/ size[1] - 1 < 0]
          [] direction = "Right" ->
                [value |-> <<cy, Min(Wrapped(cx + 1, U8Range),
                                     Wrapped(size[2] - 1, U8Range))>>,
                 overflow |-> cx + 1 >= U8Range \/ size[2] - 1 < 0]

\* AppGame::move_cursor: the AppGame it leaves; where an 8-bit intermediate
\* overflows the build decides between the panic and the wrapped value.
move_cursor(a, g, st, direction) ==
    IF st = Pause \/ is_end(st)
    THEN {[kind |-> "Ok", app |-> a]}
    ELSE LET size == get_size(g)
             cursor == new_cursor(a, g, direction)
             new_oy == new_offset(cursor.value[1], a.window_offset[1],
                                  a.visible_rows_amount, size[1])
             new_ox == new_offset(cursor.value[2], a.window_offset[2],
                                  a.visible_columns_amount, size[2])
             moved == [kind |-> "Ok",
                       app |-> [a EXCEPT
                                  !.cursor_position = cursor.value,
                                  !.window_offset =
                                      <<new_oy.value, new_ox.value>>]]
         IN  IF cursor.overflow \/ new_oy.overflow \/ new_ox.overflow
             THEN {[kind |-> "Panic", why |-> "overflow"], moved}
             ELSE {moved}

\* AppGame::leave and AppGame::emergency_leave
leave(a) == [a EXCEPT !.should_leave = TRUE]
emergency_leave(a) == [a EXCEPT !.should_emergency_leave = TRUE]

\* A variant of confirm_or_cancel_leave_or_leave that leaves whatever the
\* status.
confirm_or_cancel_leave_or_leave_at_once(a, st) == leave(a)

\* AppGame::confirm_or_cancel_leave_or_leave
confirm_or_cancel_leave_or_leave(a, st) ==
    IF is_end(st)
    THEN leave(a)
    ELSE [a EXCEPT !.awaiting_leave_confirmation = ~@]

\* App::tick for the game view: back_to_menu, quit or nothing.
tick(a) ==
    IF a.should_leave
    THEN [a EXCEPT !.variant = "InMenu"]
    ELSE IF a.should_emergency_leave
    THEN [a EXCEPT !.should_quit = TRUE]
    ELSE a

----------------------------------------------------------------------------
(* The application specification: the main loop of src/main.rs in the game  *)
(* view. Each turn draws the game in a field container of some size (the    *)
(* terminal may have been resized since the last turn), then takes one      *)
(* event. The run modelled ends when the application goes back to the menu  *)
(* or quits.                                                                *)

AppConfigs ==
    {[rows |-> 1, columns |-> 2, mines |-> 1],
     [rows |-> 1, columns |-> 3, mines |-> 1]}

\* The sizes of the field container: room for 1 to MaxVisible cells and the
\* two arrows on each axis.
FieldContainers ==
    {[height |-> CELL_HEIGHT * rows + ARROW_SYMBOL_SIZE * 2,
      width |-> CELL_WIDTH * columns + ARROW_SYMBOL_SIZE * 2] :
        rows \in 1..MaxVisible, columns \in 1..MaxVisible}

Directions == {"Up", "Left", "Down", "Right"}

\* The application started on a field of one of the given configurations.
AppStarted(configs) ==
    /\ \E cfg \in configs :
          LET game == Minesweeper_new(cfg.rows, cfg.columns, cfg.mines)
          IN  /\ IsOk(game)
              /\ grid = game[2].field.grid
              /\ mines_amount = game[2].field.mines_amount
              /\ status = game[2].status
              /\ stopwatch = game[2].stopwatch
    /\ now = 0
    /\ result = <<"None">>
    /\ crash = "none"
    /\ call = NoCall
    /\ app = AppGame_new

AppInit == AppStarted(AppConfigs)

\* The loop is in the game view at the given position.
InLoop(position) ==
    /\ crash = "none"
    /\ app.variant = "InGame"
    /\ ~app.should_quit
    /\ app.pc = position

\* What a handler leaves of the AppGame, back at the top of the loop.
Handled(a, name) ==
    /\ app' = [a EXCEPT !.pc = "draw"]
    /\ call' = name

\* tui.draw(&mut app)
Draw(field_container) ==
    /\ InLoop("draw")
    /\ \E drawn \in render_game(app, grid, status, field_container) :
          IF drawn.kind = "Panic"
          THEN /\ crash' = drawn.why
               /\ UNCHANGED <<app, call>>
          ELSE /\ app' = [drawn.app EXCEPT !.pc = "event"]
               /\ call' = <<"render">>
               /\ UNCHANGED crash
    /\ UNCHANGED <<grid, mines_amount, status, stopwatch, now, result>>

\* The arrow keys: App::move_cursor
KeyMoveCursor(direction) ==
    /\ InLoop("event")
    /\ \E moved \in move_cursor(app, grid, status, direction) :
          IF moved.kind = "Panic"
          THEN /\ crash' = moved.why
               /\ UNCHANGED <<app, call>>
          ELSE /\ Handled(moved.app, <<"move_cursor", direction>>)
               /\ UNCHANGED crash
    /\ UNCHANGED <<grid, mines_amount, status, stopwatch, now, result>>

\* A take_action call made by a handler, whose error `?` hands to the
\* unwrap of the main loop.
AppTakeAction(action_type, name) ==
    \E done \in take_action(Game, action_type, now) :
        IF done.crash # "none" \/ ~IsOk(done.result)
        THEN /\ crash' = IF done.crash # "none" THEN done.crash ELSE "unwrap"
             /\ UNCHANGED <<grid, status, stopwatch, result, app, call>>
        ELSE /\ grid' = done.game.field.grid
             /\ status' = done.game.status
             /\ stopwatch' = done.game.stopwatch
             /\ result' = done.result
             /\ Handled(app, name)
             /\ UNCHANGED crash

\* Enter or space: App::perform_main_action, that is
\* AppGame::open_cell_or_surrounding_cells_or_confirm_leave and the new
\* game it may ask for.
KeyMainAction ==
    /\ InLoop("event")
    /\ IF app.awaiting_leave_confirmation
       THEN /\ Handled(leave(app), <<"perform_main_action">>)
            /\ UNCHANGED <<grid, status, stopwatch, result, crash>>
       ELSE IF is_end(status)
       THEN LET size == get_size(grid)
                game == Minesweeper_new(size[1], size[2], mines_amount)
            IN  IF IsOk(game)
                THEN /\ grid' = game[2].field.grid
                     /\ status' = game[2].status
                     /\ stopwatch' = game[2].stopwatch
                     /\ app' = AppGame_new
                     /\ call' = <<"perform_main_action">>
                     /\ UNCHANGED <<result, crash>>
                ELSE /\ crash' = "unwrap"
                     /\ UNCHANGED <<grid, status, stopwatch, result, app,
                                    call>>
       ELSE AppTakeAction(OpenCellOrSurroundingCells(app.cursor_position),
                          <<"perform_main_action">>)
    /\ UNCHANGED <<mines_amount, now>>

\* f: App::perform_secondary_action, that is AppGame::toggle_flag
KeySecondaryAction ==
    /\ InLoop("event")
    /\ IF status = On
       THEN AppTakeAction(FlagCell(app.cursor_position),
                          <<"perform_secondary_action">>)
       ELSE /\ Handled(app, <<"perform_secondary_action">>)
            /\ UNCHANGED <<grid, status, stopwatch, result, crash>>
    /\ UNCHANGED <<mines_amount, now>>

\* p: AppVariant::pause
KeyPause ==
    /\ InLoop("event")
    /\ LET toggled == IF ~app.awaiting_leave_confirmation
                      THEN toggle_pause(Game, now)
                      ELSE Game
       IN  /\ status' = toggled.status
           /\ stopwatch' = toggled.stopwatch
    /\ Handled(app, <<"pause">>)
    /\ UNCHANGED <<grid, mines_amount, now, result, crash>>

\* q or escape (force = FALSE), control-c (force = TRUE): AppVariant::leave
KeyLeave(force) ==
    /\ InLoop("event")
    /\ Handled(IF force
               THEN emergency_leave(app)
               ELSE confirm_or_cancel_leave_or_leave(app, status),
               <<"leave", force>>)
    /\ UNCHANGED <<grid, mines_amount, status, stopwatch, now, result, crash>>

\* Event::Tick: App::tick
TickEvent ==
    /\ InLoop("event")
    /\ Handled(tick(app), <<"tick">>)
    /\ UNCHANGED <<grid, mines_amount, status, stopwatch, now, result, crash>>

\* Event::Mouse, Event::Resize and the keys that are not bound
OtherEvent ==
    /\ InLoop("event")
    /\ Handled(app, <<"none">>)
    /\ UNCHANGED <<grid, mines_amount, status, stopwatch, now, result, crash>>

AppNext ==
    \/ \E field_container \in FieldContainers : Draw(field_container)
    \/ \E direction \in Directions : KeyMoveCursor(direction)
    \/ KeyMainAction
    \/ KeySecondaryAction
    \/ KeyPause
    \/ \E force \in BOOLEAN : KeyLeave(force)
    \/ TickEvent
    \/ OtherEvent

SpecApp == AppInit /\ [][AppNext]_vars

----------------------------------------------------------------------------
(* The viewport specification: the same loop on a field with more rows     *)
(* than columns and more than one of each, where the keys pressed are the   *)
(* arrows, enter and p.                                                     *)

ViewportConfigs == {[rows |-> 3, columns |-> 2, mines |-> 1]}

ViewportInit == AppStarted(ViewportConfigs)

ViewportNext ==
    \/ \E field_container \in FieldContainers : Draw(field_container)
    \/ \E direction \in Directions : KeyMoveCursor(direction)
    \/ KeyMainAction
    \/ KeyPause

SpecViewport == ViewportInit /\ [][ViewportNext]_vars

----------------------------------------------------------------------------
(* Properties of the terminal application (specifications SpecViewport and  *)
(* SpecApp).                                                                *)

\* The window lies inside the field on both axes.
WindowInsideField ==
    /\ app.window_offset[1] + app.visible_rows_amount <= get_size(grid)[1]
    /\ app.window_offset[2] + app.visible_columns_amount <= get_size(grid)[2]

\* C37: in the game view, after any sequence of cursor moves and re-renders
\* (terminal resizes that change the visible amounts included), the window
\* offset plus the visible amount does not exceed the field size on either
\* axis and the cursor stays inside the field, so every cell the renderer
\* looks up with get_cell exists and its `expect` never fires.
C37_RendererFindsItsCells ==
    /\ crash # "expect"
    /\ crash = "none" =>
          /\ WindowInsideField
          /\ app.cursor_position \in Positions(grid)

\* What move_cursor must keep of its 8-bit arithmetic, whatever the visible
\* amounts between 1 and the field size.
MoveCursorStaysInU8 ==
    (/\ app.visible_rows_amount \in 1..get_size(grid)[1]
     /\ app.visible_columns_amount \in 1..get_size(grid)[2]) =>
        \A direction \in Directions :
            KeyMoveCursor(direction) => crash' = "none"

\* C38: in AppGame::move_cursor, for every legal field size and every
\* visible_rows_amount / visible_columns_amount between 1 and the field
\* size, no 8-bit intermediate value (cy + 1, oy + visible - 2, field size -
\* visible, oy + 1) falls below 0 or above 255.
C38_MoveCursorStaysInU8 == [][MoveCursorStaysInU8]_vars

\* What every step of the loop must keep of the leave protocol.
LeaveNeedsConfirmation ==
    /\ (~is_end(status) /\ ~app.should_leave /\ app'.should_leave) =>
          /\ app.awaiting_leave_confirmation
          /\ KeyMainAction
    /\ (~app.awaiting_leave_confirmation
            /\ app'.awaiting_leave_confirmation) =>
          /\ ~is_end(status)
          /\ KeyLeave(FALSE)
    /\ (~is_end(status) /\ KeyLeave(FALSE)) =>
          /\ app'.awaiting_leave_confirmation
                = ~app.awaiting_leave_confirmation
          /\ app'.should_leave = app.should_leave
    /\ (app.awaiting_leave_confirmation /\ KeyMainAction) =>
          /\ app'.should_leave
          /\ grid' = grid
          /\ status' = status
          /\ stopwatch' = stopwatch
          /\ result' = result
    /\ (app.awaiting_leave_confirmation /\ KeyPause) =>
          /\ status' = status
          /\ stopwatch' = stopwatch
    /\ (is_end(status) /\ KeyLeave(FALSE)) => app'.should_leave
    /\ (app.variant = "InGame" /\ app'.variant = "InMenu") =>
          /\ app.should_leave
          /\ TickEvent

\* C39: a game that has not ended is never left for the menu by a single
\* non-forced leave: should_leave becomes true only after leave(false) has
\* set awaiting_leave_confirmation and a following main action confirms it;
\* a second leave(false) cancels the request; while the confirmation is
\* pending the main action does not reach take_action and pause is ignored.
\* When the game has ended, leave(false) leaves at once.
C39_LeaveNeedsConfirmation == [][LeaveNeedsConfirmation]_vars

\* C39 witness: a game in play left for the menu after the main action
\* confirmed the pending request.
C39_Witness ==
    /\ app.variant = "InMenu"
    /\ app.awaiting_leave_confirmation
    /\ app.should_leave
    /\ status = On
    /\ OpenPositions(grid) # {}

====
